---- MODULE Spec2Model ----
(***************************************************************************)
(* The skin-lesion classification script (src/classification.ipynb) as a   *)
(* state machine.  The script is one linear run: label encoding, class     *)
(* balancing by resampling, image loading, data preparation and split,     *)
(* training, evaluation (confusion matrix, incorrect fraction) and a       *)
(* single-image inference.  One action stands for each block of the        *)
(* script; an uncaught exception ends the run in pc = "failed".            *)
(*                                                                         *)
(* Scaling.  n_samples is 400 in the source and the HAM10000 table has     *)
(* some ten thousand rows; the model keeps the seven classes and every     *)
(* literal that shapes the data flow (range(7), num_classes=7,             *)
(* test_size=0.25, the seeds) and scales n_samples and the table down.     *)
(*                                                                         *)
(* Randomness.  Every random draw of the script comes from a generator     *)
(* seeded with a literal, so it is a fixed function of the seed that the   *)
(* source does not state.  The generator is modelled as a deterministic    *)
(* machine whose output table (rng) is chosen in Init and never changes;   *)
(* the permutation of train_test_split is drawn from a bounded family.     *)
(***************************************************************************)
EXTENDS Integers, Sequences, FiniteSets

VARIABLES pc, error, rng, np_random, skin_df, le_classes, df_list,
          skin_df_balanced, runs, first_run, files, X, Y_cat,
          ind_train, ind_test, x_train, x_test, y_train, y_test,
          model, y_pred_classes, y_true, cm, incorr_fraction,
          predicted_class, result

vars == <<pc, error, rng, np_random, skin_df, le_classes, df_list,
          skin_df_balanced, runs, first_run, files, X, Y_cat,
          ind_train, ind_test, x_train, x_test, y_train, y_test,
          model, y_pred_classes, y_true, cm, incorr_fraction,
          predicted_class, result>>

----------------------------------------------------------------------------
(* Literals of the script *)

\* range(7) of the balancer, num_classes=7 of to_categorical, Dense(7),
\* np.arange(7) of the bar plot
NumClasses == 7

\* n_samples = 400 in the source; scaled down
n_samples == 2

\* random_state=42 of resample and train_test_split, np.random.seed(42)
random_state == 42

\* test_size=0.25, as the fraction 1/TestDen
TestDen == 4

\* the value standing for Python's None
None == "None"

----------------------------------------------------------------------------
(* Bounds of the model *)

\* the balancing block may be executed this many times in one run
MaxRuns == 2

\* raw outputs of the generator are 0..RawMax
RawMax == 1

\* strides of the permutation family
MaxStride == 3

\* rows of the largest class of the metadata table
MaxCount == n_samples + 1

\* the generator's outputs repeat with this period
RngPeriod == n_samples + 1

----------------------------------------------------------------------------
(* Strings: Python compares str by code point, left to right *)

\* the seven diagnosis codes of the HAM10000 metadata column dx
DxCodes == {"akiec", "bcc", "bkl", "df", "mel", "nv", "vasc"}

\* the characters of each code, a = 1 .. z = 26
Chars ==
  [x \in DxCodes |->
     CASE x = "akiec" -> <<1, 11, 9, 5, 3>>
       [] x = "bcc"   -> <<2, 3, 3>>
       [] x = "bkl"   -> <<2, 11, 12>>
       [] x = "df"    -> <<4, 6>>
       [] x = "mel"   -> <<13, 5, 12>>
       [] x = "nv"    -> <<14, 22>>
       [] x = "vasc"  -> <<22, 1, 19, 3>>]

RECURSIVE LexLess(_, _)
LexLess(s, t) ==
  IF t = <<>> THEN FALSE
  ELSE IF s = <<>> THEN TRUE
  ELSE IF Head(s) < Head(t) THEN TRUE
  ELSE IF Head(s) > Head(t) THEN FALSE
  ELSE LexLess(Tail(s), Tail(t))

StrLess(a, b) == LexLess(Chars[a], Chars[b])

\* the diagnosis each code abbreviates, in the wording of class_names
lesion_type ==
  [x \in DxCodes |->
     CASE x = "nv"    -> "Melanocytic nevi"
       [] x = "mel"   -> "Melanoma"
       [] x = "bkl"   -> "Benign keratosis-like lesions"
       [] x = "bcc"   -> "Basal cell carcinoma"
       [] x = "akiec" -> "Actinic keratoses"
       [] x = "vasc"  -> "Vascular lesions"
       [] x = "df"    -> "Dermatofibroma"]

class_names ==
  <<"Melanocytic nevi", "Melanoma", "Benign keratosis-like lesions",
    "Basal cell carcinoma", "Actinic keratoses", "Vascular lesions",
    "Dermatofibroma">>

----------------------------------------------------------------------------
(* Sequence helpers *)

Range(s) == {s[i] : i \in DOMAIN s}

RECURSIVE Concat(_)
Concat(ss) == IF ss = <<>> THEN <<>> ELSE Head(ss) \o Concat(Tail(ss))

RECURSIVE SumSeq(_)
SumSeq(s) == IF s = <<>> THEN 0 ELSE Head(s) + SumSeq(Tail(s))

\* how many entries of s equal v
Count(s, v) == Cardinality({i \in DOMAIN s : s[i] = v})

RECURSIVE Gcd(_, _)
Gcd(a, b) == IF b = 0 THEN a ELSE Gcd(b, a % b)

----------------------------------------------------------------------------
(* LabelEncoder *)

\* np.sort
RECURSIVE InsertSorted(_, _)
InsertSorted(x, s) ==
  IF s = <<>> THEN <<x>>
  ELSE IF StrLess(x, Head(s)) THEN <<x>> \o s
  ELSE <<Head(s)>> \o InsertSorted(x, Tail(s))

RECURSIVE np_sort(_)
np_sort(col) ==
  IF col = <<>> THEN <<>> ELSE InsertSorted(Head(col), np_sort(Tail(col)))

\* drop an entry equal to its predecessor
RECURSIVE DropRepeats(_)
DropRepeats(s) ==
  IF Len(s) <= 1 THEN s
  ELSE IF s[1] = s[2] THEN DropRepeats(Tail(s))
  ELSE <<s[1]>> \o DropRepeats(Tail(s))

\* mutant of np_unique: sorted, repeats kept
np_unique_keep_repeats(col) == np_sort(col)

\* np.unique: the sorted distinct values; le.fit stores it as classes_
np_unique(col) == DropRepeats(np_sort(col))

\* le.transform on one value: {val: i for i, val in enumerate(classes_)}[x],
\* a later entry of the dict wins
le_transform(classes, x) ==
  (CHOOSE i \in DOMAIN classes :
      classes[i] = x /\ \A j \in DOMAIN classes : classes[j] = x => j <= i) - 1

\* le.inverse_transform on one label
le_inverse_transform(classes, y) == classes[y + 1]

----------------------------------------------------------------------------
(* numpy's generator: a deterministic machine.  Its state is a position in *)
(* a cycle of RngPeriod raw outputs; rng is the table of those outputs.    *)

RngStates == 0 .. (RngPeriod - 1)

\* RandomState(seed), np.random.seed(seed): the state a seed sets
SeedState(seed) == seed % RngPeriod

\* RandomState.randint(0, high, size) from state s: the values drawn
randint(table, s, high, size) ==
  [k \in 1 .. size |-> table[(s + k - 1) % RngPeriod] % high]

\* the state after size draws
Advance(s, size) == (s + size) % RngPeriod

\* mutant of check_random_state: random_state=None, the global generator
check_random_state_global(seed, g) == [state |-> g, global |-> TRUE]

\* sklearn.utils.check_random_state: an int seed makes a fresh generator,
\* None gives the global one (state g)
check_random_state(seed, g) ==
  IF seed \in Int THEN [state |-> SeedState(seed), global |-> FALSE]
  ELSE [state |-> g, global |-> TRUE]

----------------------------------------------------------------------------
(* Class balancer *)

\* skin_df[skin_df['label'] == i]
RowsOfLabel(df, i) == SelectSeq(df, LAMBDA r : r.label = i)

\* mutant of resample: never more rows than the class has
resample_no_oversample(table, rows, n, g) ==
  LET rs   == check_random_state(random_state, g)
      m    == IF n < Len(rows) THEN n ELSE Len(rows)
      idx  == randint(table, rs.state, IF rows = <<>> THEN 1 ELSE Len(rows), m)
  IN  [ok   |-> TRUE,
       rows |-> [k \in 1 .. m |-> rows[idx[k] + 1]],
       g    |-> IF rs.global THEN Advance(rs.state, m) ELSE g]

\* resample(rows, replace=True, n_samples=n, random_state=42): n positions
\* drawn by randint(0, len(rows), n); randint raises ValueError on an empty
\* range.  g is the state of the global generator, returned as the call
\* leaves it.
resample(table, rows, n, g) ==
  LET rs == check_random_state(random_state, g)
  IN  IF rows = <<>>
      THEN [ok |-> FALSE, rows |-> <<>>, g |-> g]
      ELSE LET idx == randint(table, rs.state, Len(rows), n)
           IN  [ok   |-> TRUE,
                rows |-> [k \in 1 .. n |-> rows[idx[k] + 1]],
                g    |-> IF rs.global THEN Advance(rs.state, n) ELSE g]

\* [resample(...) for i in range(7)], from class i on: the frames, whether
\* every call returned, and the global generator's state afterwards
RECURSIVE ResampleFrom(_, _, _, _)
ResampleFrom(table, df, i, g) ==
  IF i = NumClasses THEN [ok |-> TRUE, frames |-> <<>>, g |-> g]
  ELSE LET r == resample(table, RowsOfLabel(df, i), n_samples, g)
       IN  IF ~r.ok THEN [ok |-> FALSE, frames |-> <<>>, g |-> r.g]
           ELSE LET rest == ResampleFrom(table, df, i + 1, r.g)
                IN  [ok     |-> rest.ok,
                     frames |-> <<r.rows>> \o rest.frames,
                     g      |-> rest.g]

\* the index column of each frame
IndexOf(frames) ==
  [i \in DOMAIN frames |-> [k \in DOMAIN frames[i] |-> frames[i][k].index]]

----------------------------------------------------------------------------
(* The metadata table: pd.read_csv of HAM10000_metadata.csv *)

\* one row per code, in an order that is not the sorted one
BaseOrder == <<"bkl", "nv", "df", "mel", "vasc", "bcc", "akiec">>

\* a table with every code but absent once, and MaxCount rows of big
MetaTable(big, absent) ==
  LET codes == SelectSeq(BaseOrder, LAMBDA c : c # absent)
      extra == IF big = None THEN <<>> ELSE [k \in 1 .. (MaxCount - 1) |-> big]
      col   == codes \o extra
  IN  [k \in 1 .. Len(col) |->
         [index |-> k - 1, image_id |-> 100 + k - 1, dx |-> col[k]]]

MetaTables ==
  {MetaTable(big, absent) :
     big \in {None, "nv", "akiec", "df"}, absent \in {None, "vasc", "akiec"}}

Init ==
  /\ pc = "start"
  /\ error = None
  /\ rng \in [RngStates -> 0 .. RawMax]
  /\ np_random = SeedState(random_state)
  /\ skin_df \in MetaTables
  /\ le_classes = <<>>
  /\ df_list = <<>>
  /\ skin_df_balanced = <<>>
  /\ runs = 0
  /\ first_run = <<>>
  /\ files = {}
  /\ X = <<>>
  /\ Y_cat = <<>>
  /\ ind_train = <<>>
  /\ ind_test = <<>>
  /\ x_train = <<>>
  /\ x_test = <<>>
  /\ y_train = <<>>
  /\ y_test = <<>>
  /\ model = <<>>
  /\ y_pred_classes = <<>>
  /\ y_true = <<>>
  /\ cm = <<>>
  /\ incorr_fraction = <<>>
  /\ predicted_class = <<>>
  /\ result = None

\* le = LabelEncoder(); le.fit(dx); skin_df['label'] = le.transform(dx)
LabelEncoding ==
  /\ pc = "start"
  /\ LET classes == np_unique([k \in DOMAIN skin_df |-> skin_df[k].dx])
     IN  /\ le_classes' = classes
         /\ skin_df' =
              [k \in DOMAIN skin_df |->
                 [index    |-> skin_df[k].index,
                  image_id |-> skin_df[k].image_id,
                  dx       |-> skin_df[k].dx,
                  label    |-> le_transform(classes, skin_df[k].dx)]]
  /\ pc' = "encoded"
  /\ UNCHANGED <<error, rng, np_random, df_list, skin_df_balanced, runs,
                 first_run, files, X, Y_cat, ind_train, ind_test, x_train,
                 x_test, y_train, y_test, model, y_pred_classes, y_true, cm,
                 incorr_fraction, predicted_class, result>>

\* df_list = [resample(...) for i in range(7)];
\* skin_df_balanced = pd.concat(df_list).  The block may be executed again
\* on the same table before the script goes on.
BalanceData ==
  /\ pc \in {"encoded", "balanced"}
  /\ runs < MaxRuns
  /\ LET r == ResampleFrom(rng, skin_df, 0, np_random)
     IN  /\ np_random' = r.g
         /\ IF r.ok
            THEN /\ df_list' = r.frames
                 /\ skin_df_balanced' = Concat(r.frames)
                 /\ runs' = runs + 1
                 /\ first_run' =
                      IF runs = 0 THEN IndexOf(r.frames) ELSE first_run
                 /\ pc' = "balanced"
                 /\ error' = error
            ELSE /\ pc' = "failed"
                 /\ error' = "ValueError: resample of an empty class"
                 /\ UNCHANGED <<df_list, skin_df_balanced, runs, first_run>>
  /\ UNCHANGED <<rng, skin_df, le_classes, files, X, Y_cat, ind_train,
                 ind_test, x_train, x_test, y_train, y_test, model,
                 y_pred_classes, y_true, cm, incorr_fraction,
                 predicted_class, result>>

----------------------------------------------------------------------------
(* Image loader *)

\* Python's None where a path is expected; a path is <<image_id>>
NoPath == <<>>

\* image_path.get(image_id): the file glob found for the id, or None
image_path_get(fs, id) == IF id \in fs THEN <<id>> ELSE NoPath

\* mutant of Image_open: a missing path gives a blank image
Image_open_blank(path) ==
  IF path = NoPath THEN [ok |-> TRUE, image |-> [pixels |-> 0 - 1]]
  ELSE [ok |-> TRUE, image |-> [pixels |-> path[1]]]

\* np.asarray(Image.open(x).resize((SIZE, SIZE))): Image.open(None) raises;
\* the pixels of a file are named by the file
Image_open(path) ==
  IF path = NoPath THEN [ok |-> FALSE, image |-> [pixels |-> 0 - 1]]
  ELSE [ok |-> TRUE, image |-> [pixels |-> path[1]]]

ImageIds(df) == {df[k].image_id : k \in DOMAIN df}

\* image_path = {...glob...}; ['path'] = ['image_id'].map(image_path.get);
\* ['image'] = ['path'].map(lambda x: ...Image.open(x)...).
\* The directory holds the .jpg of every image of the table but for the
\* ones in missing.
ReadingImages ==
  /\ pc = "balanced"
  /\ \E missing \in {m \in SUBSET ImageIds(skin_df) : Cardinality(m) <= 1} :
       LET fs      == ImageIds(skin_df) \ missing
           withPath ==
             [k \in DOMAIN skin_df_balanced |->
                [index    |-> skin_df_balanced[k].index,
                 image_id |-> skin_df_balanced[k].image_id,
                 dx       |-> skin_df_balanced[k].dx,
                 label    |-> skin_df_balanced[k].label,
                 path     |-> image_path_get(fs, skin_df_balanced[k].image_id)]]
           opened  == [k \in DOMAIN withPath |-> Image_open(withPath[k].path)]
       IN  /\ files' = fs
           /\ IF \A k \in DOMAIN opened : opened[k].ok
              THEN /\ skin_df_balanced' =
                        [k \in DOMAIN withPath |->
                           [index    |-> withPath[k].index,
                            image_id |-> withPath[k].image_id,
                            dx       |-> withPath[k].dx,
                            label    |-> withPath[k].label,
                            path     |-> withPath[k].path,
                            image    |-> opened[k].image]]
                   /\ pc' = "loaded"
                   /\ error' = error
              ELSE /\ skin_df_balanced' = withPath
                   /\ pc' = "failed"
                   /\ error' = "AttributeError: Image.open(None)"
  /\ UNCHANGED <<rng, np_random, skin_df, le_classes, df_list, runs,
                 first_run, X, Y_cat, ind_train, ind_test, x_train, x_test,
                 y_train, y_test, model, y_pred_classes, y_true, cm,
                 incorr_fraction, predicted_class, result>>

----------------------------------------------------------------------------
(* Dataset splitter *)

\* mutant of to_categorical: the hot index one too far
to_categorical_shifted(y, num_classes) ==
  [j \in 1 .. num_classes |-> IF j - 1 = (y + 1) % num_classes THEN 1 ELSE 0]

\* to_categorical(y, num_classes) on one label: entry j (from 0) is 1 iff j = y
to_categorical(y, num_classes) ==
  [j \in 1 .. num_classes |-> IF j - 1 = y THEN 1 ELSE 0]

\* np.argmax of one row: the first index (from 0) of the largest entry
np_argmax(row) ==
  (CHOOSE j \in DOMAIN row :
      /\ \A i \in DOMAIN row : row[i] <= row[j]
      /\ \A i \in DOMAIN row : i < j => row[i] < row[j]) - 1

\* n_test = ceil(test_size * n_samples)
n_test_of(n) == (n + TestDen - 1) \div TestDen

\* rng.permutation(n) under random_state=42: one permutation of 1..n, from
\* the family start k, stride s (s prime to n)
Permutations(n) ==
  {[i \in 1 .. n |-> ((k + s * (i - 1)) % n) + 1] :
     k \in 0 .. (n - 1), s \in {t \in 1 .. MaxStride : Gcd(t, n) = 1}}

\* ind_test = permutation[:n_test]
TestIndices(perm, n_test) == SubSeq(perm, 1, n_test)

\* mutant of TrainIndices: the slice starts one entry early
TrainIndices_early(perm, n_test, n_train) ==
  SubSeq(perm, n_test, n_test + n_train - 1)

\* ind_train = permutation[n_test:(n_test + n_train)]
TrainIndices(perm, n_test, n_train) ==
  SubSeq(perm, n_test + 1, n_test + n_train)

\* _safe_indexing(a, ind)
Take(a, ind) == [j \in DOMAIN ind |-> a[ind[j]]]

\* X = np.asarray(images) / 255.; Y = labels; Y_cat = to_categorical(Y, 7);
\* x_train, x_test, y_train, y_test = train_test_split(X, Y_cat, 0.25, 42)
PreparingData ==
  /\ pc = "loaded"
  /\ LET images == [k \in DOMAIN skin_df_balanced |-> skin_df_balanced[k].image]
         Y      == [k \in DOMAIN skin_df_balanced |-> skin_df_balanced[k].label]
         cat    == [k \in DOMAIN Y |-> to_categorical(Y[k], NumClasses)]
         n      == Len(images)
         n_test == n_test_of(n)
     IN  \E perm \in Permutations(n) :
           LET test  == TestIndices(perm, n_test)
               train == TrainIndices(perm, n_test, n - n_test)
           IN  /\ X' = images
               /\ Y_cat' = cat
               /\ ind_test' = test
               /\ ind_train' = train
               /\ x_train' = Take(images, train)
               /\ x_test' = Take(images, test)
               /\ y_train' = Take(cat, train)
               /\ y_test' = Take(cat, test)
  /\ pc' = "split"
  /\ UNCHANGED <<error, rng, np_random, skin_df, le_classes, df_list,
                 skin_df_balanced, runs, first_run, files, model,
                 y_pred_classes, y_true, cm, incorr_fraction,
                 predicted_class, result>>

----------------------------------------------------------------------------
(* Model, training, evaluation *)

\* the label the table gives the image with these pixels
LabelOfImage(df, img) ==
  (CHOOSE r \in Range(df) : r.image_id = img.pixels).label

\* What model.fit leaves: the arg-max class of the softmax output for each
\* image.  The weights are the outcome of training, which the source does
\* not fix: one classifier of a bounded family, either the same class for
\* every image or the image's own label moved by a fixed shift.
Classifiers(df) ==
  {[id \in ImageIds(df) |-> k] : k \in 0 .. (NumClasses - 1)}
    \cup {[id \in ImageIds(df) |->
             (LabelOfImage(df, [pixels |-> id]) + sh) % NumClasses] :
          sh \in 0 .. 1}

\* np.argmax(model.predict(x), axis=1) on one image
predict_class(m, img) == m[img.pixels]

\* model = Sequential() ... model.compile(...); model.fit(x_train, y_train)
Training ==
  /\ pc = "split"
  /\ model' \in Classifiers(skin_df)
  /\ pc' = "trained"
  /\ UNCHANGED <<error, rng, np_random, skin_df, le_classes, df_list,
                 skin_df_balanced, runs, first_run, files, X, Y_cat,
                 ind_train, ind_test, x_train, x_test, y_train, y_test,
                 y_pred_classes, y_true, cm, incorr_fraction,
                 predicted_class, result>>

\* the members of a set of integers in ascending order
RECURSIVE SortedInts(_)
SortedInts(S) ==
  IF S = {} THEN <<>>
  ELSE LET m == CHOOSE x \in S : \A y \in S : x <= y
       IN  <<m>> \o SortedInts(S \ {m})

\* confusion_matrix(y_true, y_pred) with labels=None: the labels are the
\* sorted values that occur in y_true or y_pred; entry [i][j] counts the
\* samples of true label labels[i] predicted labels[j]
confusion_matrix(yt, yp) ==
  LET labels == SortedInts(Range(yt) \cup Range(yp))
  IN  [i \in DOMAIN labels |->
         [j \in DOMAIN labels |->
            Cardinality({t \in DOMAIN yt :
                           yt[t] = labels[i] /\ yp[t] = labels[j]})]]

\* y_pred = model.predict(x_test); y_pred_classes = np.argmax(y_pred, 1);
\* y_true = np.argmax(y_test, 1); cm = confusion_matrix(y_true, y_pred_classes)
Predictions ==
  /\ pc = "trained"
  /\ LET yp == [t \in DOMAIN x_test |-> predict_class(model, x_test[t])]
         yt == [t \in DOMAIN y_test |-> np_argmax(y_test[t])]
     IN  /\ y_pred_classes' = yp
         /\ y_true' = yt
         /\ cm' = confusion_matrix(yt, yp)
  /\ pc' = "evaluated"
  /\ UNCHANGED <<error, rng, np_random, skin_df, le_classes, df_list,
                 skin_df_balanced, runs, first_run, files, X, Y_cat,
                 ind_train, ind_test, x_train, x_test, y_train, y_test,
                 model, incorr_fraction, predicted_class, result>>

\* incorr_fraction = 1 - np.diag(cm) / np.sum(cm, axis=1), entry i kept as
\* the pair wrong/total; plt.bar(np.arange(7), incorr_fraction) raises
\* unless the heights broadcast to the 7 positions (length 7 or 1)
IncorrectPredictions ==
  /\ pc = "evaluated"
  /\ incorr_fraction' =
       [i \in DOMAIN cm |->
          [wrong |-> SumSeq(cm[i]) - cm[i][i], total |-> SumSeq(cm[i])]]
  /\ IF Len(cm) \in {1, NumClasses}
     THEN pc' = "plotted" /\ error' = error
     ELSE pc' = "failed" /\ error' = "ValueError: shape mismatch"
  /\ UNCHANGED <<rng, np_random, skin_df, le_classes, df_list,
                 skin_df_balanced, runs, first_run, files, X, Y_cat,
                 ind_train, ind_test, x_train, x_test, y_train, y_test,
                 model, y_pred_classes, y_true, cm, predicted_class,
                 result>>

----------------------------------------------------------------------------
(* Inference helper *)

\* predict_skin_cancer(model, img_path): predicted_class is the one-entry
\* arg-max array, the result class_names[predicted_class[0]]
predict_skin_cancer(m, img) == class_names[predict_class(m, img) + 1]

\* image_path = "data\HAM10000\..."; result = predict_skin_cancer(model,
\* image_path).  The path names an image of the data set; Image.open raises
\* when no such file is found.
ExampleUsage ==
  /\ pc = "plotted"
  /\ \E id \in ImageIds(skin_df) :
       LET opened == Image_open(image_path_get(files, id))
       IN  IF opened.ok
           THEN /\ result' = predict_skin_cancer(model, opened.image)
                /\ predicted_class' = <<predict_class(model, opened.image)>>
                /\ pc' = "predicted"
                /\ error' = error
           ELSE /\ pc' = "failed"
                /\ error' = "FileNotFoundError"
                /\ UNCHANGED <<result, predicted_class>>
  /\ UNCHANGED <<rng, np_random, skin_df, le_classes, df_list,
                 skin_df_balanced, runs, first_run, files, X, Y_cat,
                 ind_train, ind_test, x_train, x_test, y_train, y_test,
                 model, y_pred_classes, y_true, cm, incorr_fraction>>

----------------------------------------------------------------------------
(* Specifications *)

\* the data pipeline, up to the split
NextPrep == LabelEncoding \/ BalanceData \/ ReadingImages \/ PreparingData

SpecPrep == Init /\ [][NextPrep]_vars

\* the whole script
Next ==
  \/ LabelEncoding
  \/ BalanceData
  \/ ReadingImages
  \/ PreparingData
  \/ Training
  \/ Predictions
  \/ IncorrectPredictions
  \/ ExampleUsage

Spec == Init /\ [][Next]_vars

----------------------------------------------------------------------------
(* Claims *)

\* the stages after the images were read
AfterLoad == {"loaded", "split", "trained", "evaluated", "plotted", "predicted"}

\* the stages after the split
AfterSplit == {"split", "trained", "evaluated", "plotted", "predicted"}

\* the label column of a frame
Labels(df) == [k \in DOMAIN df |-> df[k].label]

\* the image ids of the rows ind picks from the balanced set
IdsAt(ind) == {skin_df_balanced[ind[j]].image_id : j \in DOMAIN ind}

\* C1: the name predict_skin_cancer returns for an arg-max i is the name of
\* the diagnosis code the fitted label encoder maps to i.
C1_InferenceNamesTheEncodedClass ==
  pc = "predicted" =>
    result = lesion_type[le_inverse_transform(le_classes, predicted_class[1])]

\* C2: no image_id of the balanced set is in both the train and the test
\* partition.
C2_NoImageInBothPartitions ==
  pc \in AfterSplit => IdsAt(ind_train) \cap IdsAt(ind_test) = {}

\* C3: once balanced, the set has n_samples rows of each of the 7 label ids,
\* 7 * n_samples rows in all, one frame of n_samples rows per class, and
\* every row of class i's block is a row of the table whose label is i.
C3_BalancedCounts ==
  skin_df_balanced # <<>> =>
    /\ Len(skin_df_balanced) = n_samples * NumClasses
    /\ Len(df_list) = NumClasses
    /\ \A i \in 0 .. (NumClasses - 1) :
         /\ Count(Labels(skin_df_balanced), i) = n_samples
         /\ Len(df_list[i + 1]) = n_samples
         /\ \A k \in (i * n_samples + 1) .. ((i + 1) * n_samples) :
              \E r \in Range(skin_df) :
                /\ r.label = i
                /\ r.index = skin_df_balanced[k].index
                /\ r.image_id = skin_df_balanced[k].image_id
                /\ r.dx = skin_df_balanced[k].dx
                /\ skin_df_balanced[k].label = i

\* C3 witness: a balanced set drawn from a table with a class of fewer than
\* n_samples rows and a class of more than n_samples rows
C3_Witness ==
  /\ skin_df_balanced # <<>>
  /\ \E i \in 0 .. (NumClasses - 1) : Count(Labels(skin_df), i) < n_samples
  /\ \E i \in 0 .. (NumClasses - 1) : Count(Labels(skin_df), i) > n_samples

\* C4: after the split every row position of the balanced set is in exactly
\* one of the train and the test index arrays, each partition's image and
\* one-hot row are those of the same position, and the test partition holds
\* ceil(n / 4) of the n rows (a quarter when 4 divides n, as it does for the
\* source's 2800 rows).
C4_SplitIsPartition ==
  pc \in AfterSplit =>
    LET n == Len(skin_df_balanced)
    IN  /\ Len(X) = n /\ Len(Y_cat) = n
        /\ Range(ind_train) \cup Range(ind_test) = 1 .. n
        /\ Range(ind_train) \cap Range(ind_test) = {}
        /\ Len(ind_train) + Len(ind_test) = n
        /\ Len(x_train) = Len(ind_train) /\ Len(y_train) = Len(ind_train)
        /\ Len(x_test) = Len(ind_test) /\ Len(y_test) = Len(ind_test)
        /\ \A j \in DOMAIN ind_train :
             /\ x_train[j] = skin_df_balanced[ind_train[j]].image
             /\ y_train[j] = Y_cat[ind_train[j]]
        /\ \A j \in DOMAIN ind_test :
             /\ x_test[j] = skin_df_balanced[ind_test[j]].image
             /\ y_test[j] = Y_cat[ind_test[j]]
        /\ TestDen * Len(x_test) >= n
        /\ TestDen * (Len(x_test) - 1) < n

\* C4 witness: a split whose test rows are not a run of neighbouring rows
C4_Witness ==
  /\ pc = "split"
  /\ Len(ind_test) >= 2
  /\ ind_test[2] # ind_test[1] + 1
  /\ ind_train # <<>>

\* C5: the encoder is a bijection between the distinct dx strings of the
\* table and 0 .. number_of_classes - 1: decoding a row's label gives its dx,
\* rows of different dx have different labels, every label is below the
\* number of distinct strings, and every label of the balanced set is in
\* 0 .. 6.
C5_EncoderBijection ==
  pc # "start" =>
    LET D == {skin_df[k].dx : k \in DOMAIN skin_df}
    IN  /\ Len(le_classes) = Cardinality(D)
        /\ \A k \in DOMAIN skin_df :
             /\ skin_df[k].label \in 0 .. (Cardinality(D) - 1)
             /\ le_inverse_transform(le_classes, skin_df[k].label)
                  = skin_df[k].dx
             /\ le_transform(le_classes, skin_df[k].dx) = skin_df[k].label
        /\ \A k, l \in DOMAIN skin_df :
             skin_df[k].dx # skin_df[l].dx
               => skin_df[k].label # skin_df[l].label
        /\ \A k \in DOMAIN skin_df_balanced :
             skin_df_balanced[k].label \in 0 .. (NumClasses - 1)

\* C5 witness: a fitted encoder over a table in which a code repeats, with
\* the balanced set drawn
C5_Witness ==
  /\ pc = "balanced"
  /\ Len(skin_df) > Len(le_classes)
  /\ Len(le_classes) = NumClasses

C8_BalancingRepeats ==
  runs >= 2 => IndexOf(df_list) = first_run

\* C8 witness: the block was executed twice and some class's draw holds two
\* different rows
C8_Witness ==
  /\ runs = 2
  /\ \E i \in DOMAIN first_run : \E k, l \in DOMAIN first_run[i] :
       first_run[i][k] # first_run[i][l]

\* C9: past the image-loading block every row of the balanced set has a
\* file and carries that file's pixels, no row was dropped, and X holds one
\* image per row; a run that met a missing file has failed with no X.
C9_MissingImageIsFatal ==
  /\ pc \in AfterLoad =>
       /\ Len(skin_df_balanced) = n_samples * NumClasses
       /\ \A k \in DOMAIN skin_df_balanced :
            /\ skin_df_balanced[k].image_id \in files
            /\ skin_df_balanced[k].path = <<skin_df_balanced[k].image_id>>
            /\ skin_df_balanced[k].image.pixels = skin_df_balanced[k].image_id
  /\ pc \in AfterSplit =>
       /\ Len(X) = Len(skin_df_balanced)
       /\ \A k \in DOMAIN X : X[k].pixels = skin_df_balanced[k].image_id
  /\ (pc # "balanced" /\ \E k \in DOMAIN skin_df_balanced :
                            skin_df_balanced[k].image_id \notin files)
       => pc = "failed" /\ X = <<>> /\ model = <<>>

\* C9 witness: a run that failed in the image-loading block on a balanced
\* row whose image has no file
C9_Witness ==
  /\ pc = "failed"
  /\ error = "AttributeError: Image.open(None)"
  /\ \E k \in DOMAIN skin_df_balanced :
       /\ skin_df_balanced[k].image_id \notin files
       /\ skin_df_balanced[k].path = NoPath

\* C10: every row of Y_cat has 7 entries, one of them 1 and the others 0,
\* summing to 1, with the 1 at the row's label; the arg-max of each y_test
\* row, which the evaluation takes as y_true, is the label of the balanced
\* row the split took it from.
C10_OneHot ==
  pc \in AfterSplit =>
    /\ Len(Y_cat) = Len(skin_df_balanced)
    /\ \A k \in DOMAIN Y_cat :
         /\ Len(Y_cat[k]) = NumClasses
         /\ SumSeq(Y_cat[k]) = 1
         /\ Count(Y_cat[k], 1) = 1
         /\ Count(Y_cat[k], 0) = NumClasses - 1
         /\ Y_cat[k][skin_df_balanced[k].label + 1] = 1
         /\ np_argmax(Y_cat[k]) = skin_df_balanced[k].label
    /\ \A t \in DOMAIN y_test :
         np_argmax(y_test[t]) = skin_df_balanced[ind_test[t]].label

\* C10 witness: a split set whose one-hot rows have the 1 at the first, at
\* the last and at an inner entry
C10_Witness ==
  /\ pc = "split"
  /\ \E k \in DOMAIN Y_cat : Y_cat[k][1] = 1
  /\ \E k \in DOMAIN Y_cat : Y_cat[k][NumClasses] = 1
  /\ \E k \in DOMAIN y_test : y_test[k][1] = 0 /\ y_test[k][NumClasses] = 0

====
